---- MODULE Spec2Model ----
(***************************************************************************)
(* Line finding (lineFinding.py) and post processing (postProcessing.py):  *)
(* the octant tracing scan, the visited matrix, the grouping of adjacent   *)
(* lines into structures and the merge of lines with equal slope.          *)
(*                                                                         *)
(* A pixel is the pair <<x, y>> (x the column, y the row).  The image and  *)
(* the predicate isLineColor are modelled together: image is the set of    *)
(* the pixels p for which isLineColor(image[y, x]) is true.                *)
(* A LineSegment object is its index in the sequence lines; lines[k] holds *)
(* the fields of object k, so that a mutation of an object is seen through *)
(* every list that refers to it (Python's reference semantics).            *)
(***************************************************************************)
EXTENDS Integers, Sequences, FiniteSets, TLC

VARIABLES
    shape,           \* image.shape == <<rows, columns>>
    image,           \* the line-colored pixels of the image
    visited_matrix,  \* VisitedMatrix._visited_matrix: the pixels set to 1
    lines,           \* _findLines: lines; afterwards the LineSegment objects
    lineSegment,     \* the segment being traced
    loc,             \* locals of the running octant handler
    i, j,            \* _findLines: the loop variables (row, column)
    pc,              \* the position of the program
    attributed,      \* per traced segment: its seed and the runs it marked visited
    delta,           \* the neighbourhood radius
    angle_epsilon,   \* <<>> when not set (None), <<e>> when set to e degrees
    structures,      \* groupAdjacentLines: structures (each a list of objects)
    structure,       \* the Structure being collected
    visitedLines,    \* groupAdjacentLines: visitedLines
    stack,           \* the frames of collectAdjacentLines, innermost last
    gi,              \* groupAdjacentLines: position of line_1 in lines
    ms, mi, mj,      \* merge: structure in work, and i, j of combineLinesWithEqualSlope_Rec
    calls,           \* number of calls of combineLinesWithEqualSlope so far
    call             \* the last operation called on the visited matrix and its outcome

vars == <<shape, image, visited_matrix, lines, lineSegment, loc, i, j, pc, attributed,
          delta, angle_epsilon, structures, structure, visitedLines, stack, gi,
          ms, mi, mj, calls, call>>

traceVars == <<visited_matrix, lines, lineSegment, loc, i, j, attributed>>
groupVars == <<structure, visitedLines, stack, gi>>
mergeVars == <<ms, mi, mj, calls>>

(***************************************************************************)
(* Bounds of the model                                                     *)
(***************************************************************************)
MaxRows == 4
MaxCols == 4
MaxPixels == 12
MaxSteps == 4
MatrixRows == 2
MatrixCols == 2
MaxX == 2
MaxY == 1
MaxLines == 3
MaxCalls == 2
ScenarioCols == 7

Rows == shape[1]
Cols == shape[2]

Pixels(sh) == (0 .. sh[2] - 1) \X (0 .. sh[1] - 1)

Abs(n) == IF n < 0 THEN -n ELSE n
Min(a, b) == IF a < b THEN a ELSE b
Max(a, b) == IF a < b THEN b ELSE a

(***************************************************************************)
(* LineSegment                                                             *)
(***************************************************************************)
LineSegment(x_start, y_start, x_end, y_end) ==
    [x_start |-> x_start, y_start |-> y_start, x_end |-> x_end, y_end |-> y_end,
     vertical |-> FALSE]

NoSegment == LineSegment(-1, -1, -1, -1)

setVertical(l) == [l EXCEPT !.vertical = TRUE]
setEndCoordinate(l, x, y) == [l EXCEPT !.x_end = x, !.y_end = y]
setStartCoordinate(l, x, y) == [l EXCEPT !.x_start = x, !.y_start = y]

isPoint(l) == 0 = (l.x_end - l.x_start) /\ 0 = (l.y_end - l.y_start)
getXLength(l) == Abs(l.x_end - l.x_start) + 1
getYLength(l) == Abs(l.y_end - l.y_start) + 1

LineSegment_isValidIndice(x, y) ==
    IF y < 0 \/ y >= Rows THEN FALSE
    ELSE IF x < 0 \/ x >= Cols THEN FALSE
    ELSE TRUE

\* isLineColor(image[y, x]) for an addressable pixel
isLineColor(x, y) == <<x, y>> \in image

isNextPixelBelow(l) ==
    LET temp_x == l.x_end
        temp_y == l.y_end + 1
    IN  IF ~LineSegment_isValidIndice(temp_x, temp_y) THEN FALSE
        ELSE isLineColor(temp_x, temp_y)

isNextPixelRightDown(l) ==
    LET temp_x == l.x_end + 1
        temp_y == l.y_end + 1
    IN  IF ~LineSegment_isValidIndice(temp_x, temp_y) THEN FALSE
        ELSE isLineColor(temp_x, temp_y)

isNextPixelLeftDown(l) ==
    LET temp_x == IF l.vertical THEN l.x_end - 1 ELSE l.x_start - 1
        temp_y == IF l.vertical THEN l.y_end + 1 ELSE l.y_start + 1
    IN  IF ~LineSegment_isValidIndice(temp_x, temp_y) THEN FALSE
        ELSE isLineColor(temp_x, temp_y)

(***************************************************************************)
(* Run finding                                                             *)
(***************************************************************************)
RECURSIVE VerticalWhile(_, _)
VerticalWhile(x, l) ==
    IF l < Rows /\ isLineColor(x, l) THEN VerticalWhile(x, l + 1) ELSE l

findVerticalSegment(x, y) == <<x, VerticalWhile(x, y) - 1>>

RECURSIVE NegativeWhile(_, _)
NegativeWhile(l, y) ==
    IF l >= 0 /\ isLineColor(l, y) THEN NegativeWhile(l - 1, y) ELSE l

findHorizontalNegativeSegment(x, y) == <<NegativeWhile(x, y) + 1, y>>

RECURSIVE PositiveWhile(_, _)
PositiveWhile(l, y) ==
    IF l < Cols /\ isLineColor(l, y) THEN PositiveWhile(l + 1, y) ELSE l

findHorizontalPositiveSegment(x, y) == <<PositiveWhile(x, y) - 1, y>>

(***************************************************************************)
(* VisitedMatrix                                                           *)
(***************************************************************************)
VisitedMatrix_isValidIndice(x, y) ==
    IF y < 0 \/ y > Rows THEN FALSE
    ELSE IF x < 0 \/ x > Cols THEN FALSE
    ELSE TRUE

\* numpy: _visited_matrix[y, x] is addressable (no negative index gets here)
Addressable(x, y) == x < Cols /\ y < Rows

\* the pixels setRowVisited(y, x1, x2) passes to setVisited, in order
RowRange(y, x1, x2) == {<<x, y>> : x \in Min(x1, x2) .. Max(x1, x2)}
\* the pixels setColumnVisited(x, y1, y2) passes to setVisited, in order
ColumnRange(x, y1, y2) == {<<x, y>> : y \in Min(y1, y2) .. Max(y1, y2)}

\* the outcome of setRowVisited / setColumnVisited on the pixels of a range:
\* the range is marked up to the first pixel numpy cannot address
RangeRaises(range) == \E p \in range : ~Addressable(p[1], p[2])

RowRaises(y, x1, x2) ==
    ~(VisitedMatrix_isValidIndice(x1, y) /\ VisitedMatrix_isValidIndice(x2, y))
    \/ RangeRaises(RowRange(y, x1, x2))

ColumnRaises(x, y1, y2) ==
    ~(VisitedMatrix_isValidIndice(x, y1) /\ VisitedMatrix_isValidIndice(x, y2))
    \/ RangeRaises(ColumnRange(x, y1, y2))

\* mutant: the last pixel of the row range is left unmarked
setRowVisited_Short(vm, y, x1, x2) ==
    vm \cup {p \in RowRange(y, x1, x2) : p[1] < Max(x1, x2)}

setRowVisited(vm, y, x1, x2) ==
    IF ~(VisitedMatrix_isValidIndice(x1, y) /\ VisitedMatrix_isValidIndice(x2, y))
    THEN vm
    ELSE vm \cup {p \in RowRange(y, x1, x2) : Addressable(p[1], p[2])}

setColumnVisited(vm, x, y1, y2) ==
    IF ~(VisitedMatrix_isValidIndice(x, y1) /\ VisitedMatrix_isValidIndice(x, y2))
    THEN vm
    ELSE vm \cup {p \in ColumnRange(x, y1, y2) : Addressable(p[1], p[2])}

isVisited(x, y) == <<x, y>> \in visited_matrix

(***************************************************************************)
(* _findLines: the scan driver and the octant handlers                     *)
(***************************************************************************)
NoLoc == [length |-> 0, max_length |-> 0, x_temp |-> 0, x_end |-> 0, y_end |-> 0,
          bound |-> FALSE]

\* position of pixel p in the order of the two for loops (row by row)
ScanOrder(p) == p[2] * Cols + p[1]

\* the pixels the for loops of _findLines still have to look at
Ahead == {p \in Pixels(shape) : ScanOrder(p) >= i * Cols + j}

\* mutant: the visited matrix is not consulted
Candidates_IgnoreVisited == {p \in Ahead : isLineColor(p[1], p[2])}

\* the pixels ahead that pass the test of line 463
Candidates == {p \in Ahead : isLineColor(p[1], p[2]) /\ ~isVisited(p[1], p[2])}

\* the next pixel at which the loops create a LineSegment: the first of the
\* candidates in the order of the loops
NextSeed(candidates) ==
    CHOOSE p \in candidates : \A q \in candidates : ScanOrder(p) <= ScanOrder(q)

\* mutant: no upper limit on the length of a run
AcceptRun_NoMaximum(run_length, length, max_length) ==
    run_length >= length

\* mutant: a run as long as the initial run is not accepted
AcceptRun_Longer(run_length, length, max_length) ==
    run_length > length /\ run_length <= max_length

\* the acceptance test of an extension run (lines 311, 337, 427)
AcceptRun(run_length, length, max_length) ==
    run_length >= length /\ run_length <= max_length

RowRun(y, x1, x2) == [kind |-> "row", at |-> y, from |-> x1, to |-> x2]
ColumnRun(x, y1, y2) == [kind |-> "column", at |-> x, from |-> y1, to |-> y2]

\* lines.append(lineSegment) and the step of the inner for loop
Append_lines(seg) ==
    /\ lines' = Append(lines, seg)
    /\ lineSegment' = NoSegment
    /\ loc' = NoLoc
    /\ j' = j + 1
    /\ pc' = "scan"

\* _findLines, lines 461-470 with handleFourthAndSeventhOctant, lines 367-376:
\* a seed whose pixel below is not line-colored
SeedShallow ==
    /\ pc = "scan"
    /\ \E candidates \in {Candidates} :
       candidates # {} /\
       \E seed \in {NextSeed(candidates)} :
       \E seg0 \in {LineSegment(seed[1], seed[2], seed[1], seed[2])} :
       \E e \in {findHorizontalPositiveSegment(seg0.x_start, seg0.y_start)} :
       \E seg1 \in {setEndCoordinate(seg0, e[1], e[2])} :
           /\ ~isNextPixelBelow(seg0)
           /\ i' = seed[2]
           /\ attributed' = Append(attributed,
                  [seed |-> seed, runs |-> <<RowRun(e[2], seg0.x_start, e[1])>>])
           /\ visited_matrix' = setRowVisited(visited_matrix, e[2], seg0.x_start, e[1])
           /\ IF RowRaises(e[2], seg0.x_start, e[1])
              THEN /\ pc' = "error"
                   /\ lineSegment' = seg1
                   /\ j' = seed[1]
                   /\ UNCHANGED <<lines, loc>>
              ELSE IF isNextPixelRightDown(seg1) \/ isNextPixelLeftDown(seg1)
              THEN /\ pc' = IF isNextPixelRightDown(seg1) THEN "seventh" ELSE "fourth"
                   /\ lineSegment' = seg1
                   /\ j' = seed[1]
                   /\ loc' = [NoLoc EXCEPT !.length = getXLength(seg1),
                                           !.max_length = 2 * getXLength(seg1)]
                   /\ UNCHANGED lines
              ELSE /\ lines' = Append(lines, seg1)
                   /\ lineSegment' = NoSegment
                   /\ loc' = NoLoc
                   /\ j' = seed[1] + 1
                   /\ pc' = "scan"
    /\ UNCHANGED <<shape, image, delta, angle_epsilon, structures, groupVars, mergeVars, call>>

\* _findLines, lines 461-468 with handleFifthAndSixthOctant, lines 403-411:
\* a seed whose pixel below is line-colored
SeedSteep ==
    /\ pc = "scan"
    /\ \E candidates \in {Candidates} :
       candidates # {} /\
       \E seed \in {NextSeed(candidates)} :
       \E segv \in {setVertical(LineSegment(seed[1], seed[2], seed[1], seed[2]))} :
       \E e \in {findVerticalSegment(segv.x_start, segv.y_start)} :
       \E seg1 \in {setEndCoordinate(segv, e[1], e[2])} :
           /\ isNextPixelBelow(segv)
           /\ i' = seed[2]
           /\ j' = seed[1]
           /\ lineSegment' = seg1
           /\ attributed' = Append(attributed,
                  [seed |-> seed, runs |-> <<ColumnRun(segv.x_start, segv.y_start, e[2])>>])
           /\ visited_matrix' = setColumnVisited(visited_matrix, segv.x_start, segv.y_start, e[2])
           /\ IF ColumnRaises(segv.x_start, segv.y_start, e[2])
              THEN pc' = "error" /\ UNCHANGED loc
              ELSE /\ pc' = "fifthsixth"
                   /\ loc' = [length |-> getYLength(seg1), max_length |-> 2 * getYLength(seg1),
                              x_temp |-> seg1.x_start, x_end |-> e[1], y_end |-> e[2],
                              bound |-> TRUE]
    /\ UNCHANGED <<shape, image, lines, delta, angle_epsilon, structures, groupVars,
                   mergeVars, call>>

\* _findLines, lines 461-474: no pixel is left, the loops end and lines is returned
ScanEnd ==
    /\ pc = "scan"
    /\ Candidates = {}
    /\ pc' = "traced"
    /\ i' = Rows
    /\ j' = 0
    /\ UNCHANGED <<shape, image, visited_matrix, lines, lineSegment, loc, attributed,
                   delta, angle_epsilon, structures, groupVars, mergeVars, call>>

\* the end of one pass of an extension loop: the run (if any) is accepted or not,
\* and the handler returns to _findLines when moreSeg is False
ExtensionEnd(seg, accept, moreSeg, raises, run, vm, newloc) ==
    /\ visited_matrix' = IF accept THEN vm ELSE visited_matrix
    /\ attributed' = IF accept
                     THEN [attributed EXCEPT ![Len(attributed)].runs = Append(@, run)]
                     ELSE attributed
    /\ IF accept /\ raises
       THEN pc' = "error" /\ lineSegment' = seg /\ loc' = newloc /\ UNCHANGED <<lines, j>>
       ELSE IF moreSeg
       THEN pc' = pc /\ lineSegment' = seg /\ loc' = newloc /\ UNCHANGED <<lines, j>>
       ELSE Append_lines(seg)
    /\ UNCHANGED <<shape, image, i, delta, angle_epsilon, structures, groupVars,
                   mergeVars, call>>

\* handleSeventhOctant, lines 326-341: one pass of the while loop
SeventhStep ==
    /\ pc = "seventh"
    /\ \E x_temp \in {lineSegment.x_end + 1} :
       \E y_temp \in {lineSegment.y_end + 1} :
       \E probe \in {isNextPixelRightDown(lineSegment)} :
       \E e \in {IF probe THEN findHorizontalPositiveSegment(x_temp, y_temp)
                 ELSE <<loc.x_end, loc.y_end>>} :
       \E lengthX \in {e[1] - x_temp + 1} :
       \E accept \in {AcceptRun(lengthX, loc.length, loc.max_length)} :
           IF ~probe /\ ~loc.bound
           THEN pc' = "error" /\ UNCHANGED <<shape, image, traceVars, delta, angle_epsilon,
                                             structures, groupVars, mergeVars, call>>
           ELSE ExtensionEnd(
                  IF accept THEN setEndCoordinate(lineSegment, e[1], e[2]) ELSE lineSegment,
                  accept, probe /\ accept, RowRaises(y_temp, x_temp, e[1]),
                  RowRun(y_temp, x_temp, e[1]),
                  setRowVisited(visited_matrix, y_temp, x_temp, e[1]),
                  [loc EXCEPT !.x_temp = x_temp, !.x_end = e[1], !.y_end = e[2],
                              !.bound = TRUE])

\* handleFourthOctant, lines 300-315: one pass of the while loop
FourthStep ==
    /\ pc = "fourth"
    /\ \E x_temp \in {lineSegment.x_start - 1} :
       \E y_temp \in {lineSegment.y_start + 1} :
       \E probe \in {isNextPixelLeftDown(lineSegment)} :
       \E e \in {IF probe THEN findHorizontalNegativeSegment(x_temp, y_temp)
                 ELSE <<loc.x_end, loc.y_end>>} :
       \E lengthX \in {x_temp - e[1] + 1} :
       \E accept \in {AcceptRun(lengthX, loc.length, loc.max_length)} :
           IF ~probe /\ ~loc.bound
           THEN pc' = "error" /\ UNCHANGED <<shape, image, traceVars, delta, angle_epsilon,
                                             structures, groupVars, mergeVars, call>>
           ELSE ExtensionEnd(
                  IF accept THEN setStartCoordinate(lineSegment, e[1], e[2]) ELSE lineSegment,
                  accept, probe /\ accept, RowRaises(y_temp, x_temp, e[1]),
                  RowRun(y_temp, x_temp, e[1]),
                  setRowVisited(visited_matrix, y_temp, x_temp, e[1]),
                  [loc EXCEPT !.x_temp = x_temp, !.x_end = e[1], !.y_end = e[2],
                              !.bound = TRUE])

\* handleFifthAndSixthOctant, lines 413-431: one pass of the while loop
FifthSixthStep ==
    /\ pc = "fifthsixth"
    /\ \E y_temp \in {lineSegment.y_end + 1} :
       \E left \in {isNextPixelLeftDown(lineSegment)} :
       \E right \in {isNextPixelRightDown(lineSegment)} :
       \E x_temp \in {IF left THEN loc.x_temp - 1
                      ELSE IF right THEN loc.x_temp + 1
                      ELSE loc.x_temp} :
       \E e \in {IF left \/ right THEN findVerticalSegment(x_temp, y_temp)
                 ELSE <<loc.x_end, loc.y_end>>} :
       \E lengthY \in {(e[2] - y_temp) + 1} :
       \E accept \in {AcceptRun(lengthY, loc.length, loc.max_length)} :
           ExtensionEnd(
              IF accept THEN setEndCoordinate(lineSegment, e[1], e[2]) ELSE lineSegment,
              accept, (left \/ right) /\ accept, ColumnRaises(x_temp, y_temp, e[2]),
              ColumnRun(x_temp, y_temp, e[2]),
              setColumnVisited(visited_matrix, x_temp, y_temp, e[2]),
              [loc EXCEPT !.x_temp = x_temp, !.x_end = e[1], !.y_end = e[2]])

NextTrace == SeedShallow \/ SeedSteep \/ ScanEnd \/ SeventhStep \/ FourthStep \/ FifthSixthStep

NoCall == [op |-> "none", args |-> <<>>, outcome |-> "none"]

\* the state before any stage has run; input is the list of LineSegment objects
\* the caller holds (none before the scan)
Idle(input) ==
    /\ visited_matrix = {}
    /\ lines = input
    /\ lineSegment = NoSegment
    /\ loc = NoLoc
    /\ i = 0
    /\ j = 0
    /\ attributed = <<>>
    /\ structure = <<>>
    /\ visitedLines = <<>>
    /\ stack = <<>>
    /\ gi = 0
    /\ ms = 0
    /\ mi = 0
    /\ mj = 0
    /\ calls = 0
    /\ call = NoCall

\* n runs of 2 pixels, the first at <<x0, y0>>, each one row below the run
\* before it and starting one column right of its end (scenario B)
Staircase(n, x0, y0) ==
    UNION {{<<x0 + 2 * k, y0 + k>>, <<x0 + 2 * k + 1, y0 + k>>} : k \in 0 .. n - 1}

StairShapes == (1 .. MaxSteps + 1) \X (2 .. 2 * MaxSteps + 1)

Shapes == {sh \in (1 .. MaxRows) \X (1 .. MaxCols) : sh[1] * sh[2] <= MaxPixels}

\* _findLines(image, isLineColor) is called on any image of at most MaxRows x MaxCols
\* and at most MaxPixels pixels, or on a larger image that holds a staircase of
\* at most MaxSteps runs and nothing else
InitTrace ==
    /\ \/ /\ shape \in Shapes
          /\ image \in SUBSET Pixels(shape)
       \/ /\ shape \in StairShapes
          /\ \E n \in 1 .. MaxSteps, x0 \in 0 .. 1, y0 \in 0 .. 1 :
                 /\ Staircase(n, x0, y0) \subseteq Pixels(shape)
                 /\ image = Staircase(n, x0, y0)
    /\ delta = 1
    /\ angle_epsilon = <<>>
    /\ pc = "scan"
    /\ structures = <<>>
    /\ Idle(<<>>)

SpecTrace == InitTrace /\ [][NextTrace]_vars

\* _findLines runs on its own, synchronously: a step that can be taken is taken
SpecTraceFair == SpecTrace /\ WF_vars(NextTrace)

(***************************************************************************)
(* Properties of the scan                                                  *)
(***************************************************************************)
RunPixels(run) ==
    IF run.kind = "row" THEN RowRange(run.at, run.from, run.to)
    ELSE ColumnRange(run.at, run.from, run.to)

RunLength(run) == Abs(run.to - run.from) + 1

\* the pixels attributed to the k-th traced segment: its initial run and the
\* extension runs it accepted
SegmentPixels(k) ==
    UNION {RunPixels(attributed[k].runs[n]) : n \in 1 .. Len(attributed[k].runs)}

\* the number of line-colored pixels in a row from pixel p on in direction d,
\* read off the image
StraightRun(p, d) ==
    CHOOSE n \in 0 .. (MaxRows + MaxCols) :
        /\ \A k \in 0 .. n - 1 : <<p[1] + k * d[1], p[2] + k * d[2]>> \in image
        /\ <<p[1] + n * d[1], p[2] + n * d[2]>> \notin image

InExtension == pc \in {"seventh", "fourth", "fifthsixth"}

\* the run the next pass of the extension loop traces, read off the image;
\* length 0 when the diagonal probe finds no line-colored pixel
ProbedStart ==
    IF pc = "seventh" THEN <<lineSegment.x_end + 1, lineSegment.y_end + 1>>
    ELSE IF pc = "fourth" THEN <<lineSegment.x_start - 1, lineSegment.y_start + 1>>
    ELSE IF <<lineSegment.x_end - 1, lineSegment.y_end + 1>> \in image
         THEN <<lineSegment.x_end - 1, lineSegment.y_end + 1>>
         ELSE <<lineSegment.x_end + 1, lineSegment.y_end + 1>>

ProbedDirection ==
    IF pc = "seventh" THEN <<1, 0>> ELSE IF pc = "fourth" THEN <<-1, 0>> ELSE <<0, 1>>

ProbedLength == StraightRun(ProbedStart, ProbedDirection)

\* the far end of the probed run
ProbedEnd == <<ProbedStart[1] + (ProbedLength - 1) * ProbedDirection[1],
               ProbedStart[2] + (ProbedLength - 1) * ProbedDirection[2]>>

ProbedPixels ==
    {<<ProbedStart[1] + k * ProbedDirection[1], ProbedStart[2] + k * ProbedDirection[2]>> :
        k \in 0 .. ProbedLength - 1}

\* the length of the initial run of the segment being traced, read off the image
ReferenceLength ==
    StraightRun(attributed[Len(attributed)].seed,
                IF pc = "fifthsixth" THEN <<0, 1>> ELSE <<1, 0>>)

\* the segment as it is after the step: still being traced, or just appended
SegmentAfter == IF pc' = "scan" THEN lines'[Len(lines')] ELSE lineSegment'

\* the step accepts the probed run: the endpoint of the segment moves to the
\* far end of the run and the run is marked visited
AcceptsProbed ==
    /\ ProbedLength > 0
    /\ SegmentAfter # lineSegment
    /\ IF pc = "fourth"
       THEN <<SegmentAfter.x_start, SegmentAfter.y_start>> = ProbedEnd
       ELSE <<SegmentAfter.x_end, SegmentAfter.y_end>> = ProbedEnd
    /\ ProbedPixels \subseteq visited_matrix'

\* C4 (as claimed): no pixel is attributed to two different segments of the scan
C4_NoOverlap ==
    \A a, b \in 1 .. Len(attributed) :
        a # b => SegmentPixels(a) \cap SegmentPixels(b) = {}

\* C5: every pass of an extension loop either accepts the probed run, whose
\* length n then satisfies L <= n <= 2L for the length L of the segment's
\* initial run, or leaves the segment and the visited matrix as they are and
\* ends the loop; a run with n outside [L, 2L] is never accepted
C5_ThicknessBound ==
    [][InExtension =>
        /\ AcceptsProbed =>
              /\ ReferenceLength <= ProbedLength
              /\ ProbedLength <= 2 * ReferenceLength
        /\ ~(ReferenceLength <= ProbedLength /\ ProbedLength <= 2 * ReferenceLength) =>
              /\ ~AcceptsProbed
              /\ SegmentAfter = lineSegment
              /\ visited_matrix' = visited_matrix
              /\ pc' = "scan"
        /\ (ReferenceLength <= ProbedLength /\ ProbedLength <= 2 * ReferenceLength) =>
              AcceptsProbed /\ pc' = pc
      ]_vars

\* C5 witness: a steep segment and a shallow segment have each accepted an
\* extension run
C5_Witness ==
    /\ pc = "traced"
    /\ \E a \in 1 .. Len(attributed) :
           lines[a].vertical /\ Len(attributed[a].runs) >= 2
    /\ \E a \in 1 .. Len(attributed) :
           ~lines[a].vertical /\ Len(attributed[a].runs) >= 2

\* C9: the segments are listed in strictly increasing row-major order of their
\* seeds; a seed is line-colored and was not visited (attributed to an earlier
\* segment) when found; a seed is the first pixel, row by row, of the pixels
\* attributed to its segment; the visited matrix holds exactly the attributed pixels
C9_DiscoveryOrder ==
    /\ Len(attributed) = Len(lines) + (IF InExtension \/ pc = "error" THEN 1 ELSE 0)
    /\ visited_matrix = UNION {SegmentPixels(a) : a \in 1 .. Len(attributed)}
    /\ \A a, b \in 1 .. Len(attributed) :
           a < b => ScanOrder(attributed[a].seed) < ScanOrder(attributed[b].seed)
    /\ \A b \in 1 .. Len(attributed) :
           /\ attributed[b].seed \in image
           /\ \A a \in 1 .. b - 1 : attributed[b].seed \notin SegmentPixels(a)
           /\ attributed[b].seed \in SegmentPixels(b)
           /\ \A p \in SegmentPixels(b) : ScanOrder(attributed[b].seed) <= ScanOrder(p)
    /\ \A a \in 1 .. Len(lines) :
           Min(lines[a].y_start, lines[a].y_end) = attributed[a].seed[2]

\* C9 witness: a finished scan that returned three segments, one of them
\* traced to the left (fourth octant) so that its seed is not its start
C9_Witness ==
    /\ pc = "traced"
    /\ Len(lines) >= 3
    /\ \E a \in 1 .. Len(lines) :
           <<lines[a].x_start, lines[a].y_start>> # attributed[a].seed

\* the first line-colored pixel of the image, row by row
FirstPixel == CHOOSE p \in image : \A q \in image : ScanOrder(p) <= ScanOrder(q)

\* C10: the scan of an image that holds only a staircase of n >= 1 runs of two
\* pixels returns exactly one segment, not vertical, from the first pixel of
\* the top run to the last pixel of the bottom run
C10_ScenarioB ==
    (pc = "traced" /\ image # {}) =>
        LET n  == Cardinality(image) \div 2
            x0 == FirstPixel[1]
            y0 == FirstPixel[2]
        IN  image = Staircase(n, x0, y0) =>
                lines = <<LineSegment(x0, y0, x0 + 2 * n - 1, y0 + n - 1)>>

\* C10 witness: the scan of a staircase of three runs has returned one segment
\* made of three runs
C10_Witness ==
    /\ pc = "traced"
    /\ image = Staircase(3, 1, 1)
    /\ Len(lines) = 1
    /\ Len(attributed[1].runs) = 3

\* what holds of the visited matrix in every state of the scan: it holds only
\* in-bounds line-colored pixels, no error was raised, and when _findLines has
\* returned it holds exactly the line-colored pixels, each of them attributed
\* to a returned segment
VisitedCovers ==
    /\ visited_matrix \subseteq Pixels(shape)
    /\ visited_matrix \subseteq image
    /\ pc # "error"
    /\ pc = "traced" =>
           /\ visited_matrix = image
           /\ Len(attributed) = Len(lines)
           /\ \A p \in image : \E k \in 1 .. Len(lines) : p \in SegmentPixels(k)

\* C13: throughout _findLines the visited set only grows and holds only
\* in-bounds line-colored pixels; no index error is raised; the scan
\* terminates, and when it returns the visited set equals the set of the
\* line-colored pixels, each attributed to at least one returned segment
C13_Coverage ==
    /\ []VisitedCovers
    /\ [][visited_matrix \subseteq visited_matrix']_vars
    /\ <>(pc = "traced")

\* C13 witness: the scan has returned from an image with background pixels
\* and several segments, one of them extended by a run, and every
\* line-colored pixel is marked visited
C13_Witness ==
    /\ pc = "traced"
    /\ visited_matrix = image
    /\ image # Pixels(shape)
    /\ Len(lines) >= 2
    /\ \E a \in 1 .. Len(attributed) : Len(attributed[a].runs) >= 2

(***************************************************************************)
(* The visited matrix on its own: calls with any coordinates               *)
(***************************************************************************)
\* the coordinates a caller may pass: one or two off the matrix on every side
Coordinates == -1 .. (Max(MatrixRows, MatrixCols) + 1)

Called(op, args, outcome, vm) ==
    /\ pc = "matrix"
    /\ call' = [op |-> op, args |-> args, outcome |-> outcome]
    /\ visited_matrix' = vm
    /\ UNCHANGED <<shape, image, lines, lineSegment, loc, i, j, pc, attributed, delta,
                   angle_epsilon, structures, groupVars, mergeVars>>

\* VisitedMatrix.isValidIndice(x, y), lines 32-42
Call_isValidIndice ==
    \E x \in Coordinates, y \in Coordinates :
        Called("isValidIndice", <<x, y>>,
               IF VisitedMatrix_isValidIndice(x, y) THEN "True" ELSE "False",
               visited_matrix)

\* VisitedMatrix.isVisited(x, y), lines 44-51
Call_isVisited ==
    \E x \in Coordinates, y \in Coordinates :
        Called("isVisited", <<x, y>>,
               IF ~VisitedMatrix_isValidIndice(x, y) THEN "ValueError"
               ELSE IF ~Addressable(x, y) THEN "IndexError"
               ELSE IF isVisited(x, y) THEN "True" ELSE "False",
               visited_matrix)

\* VisitedMatrix.setVisited(x, y), lines 53-60
Call_setVisited ==
    \E x \in Coordinates, y \in Coordinates :
        Called("setVisited", <<x, y>>,
               IF ~VisitedMatrix_isValidIndice(x, y) THEN "ValueError"
               ELSE IF ~Addressable(x, y) THEN "IndexError"
               ELSE "None",
               IF VisitedMatrix_isValidIndice(x, y) /\ Addressable(x, y)
               THEN visited_matrix \cup {<<x, y>>} ELSE visited_matrix)

\* VisitedMatrix.setRowVisited(y, x1, x2), lines 62-75
Call_setRowVisited ==
    \E y \in Coordinates, x1 \in Coordinates, x2 \in Coordinates :
        Called("setRowVisited", <<y, x1, x2>>,
               IF ~(VisitedMatrix_isValidIndice(x1, y) /\ VisitedMatrix_isValidIndice(x2, y))
               THEN "ValueError"
               ELSE IF RangeRaises(RowRange(y, x1, x2)) THEN "IndexError"
               ELSE "None",
               setRowVisited(visited_matrix, y, x1, x2))

\* VisitedMatrix.setColumnVisited(x, y1, y2), lines 77-90
Call_setColumnVisited ==
    \E x \in Coordinates, y1 \in Coordinates, y2 \in Coordinates :
        Called("setColumnVisited", <<x, y1, y2>>,
               IF ~(VisitedMatrix_isValidIndice(x, y1) /\ VisitedMatrix_isValidIndice(x, y2))
               THEN "ValueError"
               ELSE IF RangeRaises(ColumnRange(x, y1, y2)) THEN "IndexError"
               ELSE "None",
               setColumnVisited(visited_matrix, x, y1, y2))

NextMatrix ==
    \/ Call_isValidIndice
    \/ Call_isVisited
    \/ Call_setVisited
    \/ Call_setRowVisited
    \/ Call_setColumnVisited

\* VisitedMatrix(image), lines 22-30: a matrix of zeros of the shape of the image
InitMatrix ==
    /\ shape \in (1 .. MatrixRows) \X (1 .. MatrixCols)
    /\ image = {}
    /\ delta = 1
    /\ angle_epsilon = <<>>
    /\ pc = "matrix"
    /\ structures = <<>>
    /\ Idle(<<>>)

SpecMatrix == InitMatrix /\ [][NextMatrix]_vars

InBounds(x, y) == 0 <= x /\ x < Cols /\ 0 <= y /\ y < Rows

\* C7 (as claimed): isVisited and setVisited fail with the matrix's own
\* invalid-index error (ValueError) for every coordinate outside the grid, and
\* isValidIndice answers true exactly for the coordinates inside the grid
C7_InvalidIndex ==
    /\ (call.op \in {"isVisited", "setVisited"} /\ ~InBounds(call.args[1], call.args[2]))
          => call.outcome = "ValueError"
    /\ call.op = "isValidIndice"
          => (call.outcome = "True" <=> InBounds(call.args[1], call.args[2]))

(***************************************************************************)
(* postProcessing: adjacency                                               *)
(***************************************************************************)
getAdjacentCoordinates(x, y, d) == ((x - d) .. (x + d)) \X ((y - d) .. (y + d))

\* mutant: the neighbourhood leaves out its border
isAdjacentPoint_Inner(x_1, y_1, x_2, y_2, d) ==
    <<x_2, y_2>> \in getAdjacentCoordinates(x_1, y_1, d - 1)

isAdjacentPoint(x_1, y_1, x_2, y_2, d) ==
    <<x_2, y_2>> \in getAdjacentCoordinates(x_1, y_1, d)

isAdjacentToEnd(line_1, line_2, d) ==
    \/ isAdjacentPoint(line_1.x_end, line_1.y_end, line_2.x_start, line_2.y_start, d)
    \/ isAdjacentPoint(line_1.x_end, line_1.y_end, line_2.x_end, line_2.y_end, d)

isAdjacentToStart(line_1, line_2, d) ==
    \/ isAdjacentPoint(line_1.x_start, line_1.y_start, line_2.x_start, line_2.y_start, d)
    \/ isAdjacentPoint(line_1.x_start, line_1.y_start, line_2.x_end, line_2.y_end, d)

\* mutant: only the start point of line_1 is looked at
isAdjacent_StartOnly(line_1, line_2, d) == isAdjacentToStart(line_1, line_2, d)

isAdjacent(line_1, line_2, d) ==
    isAdjacentToStart(line_1, line_2, d) \/ isAdjacentToEnd(line_1, line_2, d)

\* item in list, for objects (compared by identity)
Contains(list, item) == \E k \in 1 .. Len(list) : list[k] = item

(***************************************************************************)
(* postProcessing: groupAdjacentLines                                      *)
(***************************************************************************)
\* groupAdjacentLines(lines, delta) is called, lines 197-198
Call_groupAdjacentLines ==
    /\ pc = "traced"
    /\ pc' = "group"
    /\ structures' = <<>>
    /\ visitedLines' = <<>>
    /\ structure' = <<>>
    /\ stack' = <<>>
    /\ gi' = 1
    /\ UNCHANGED <<shape, image, traceVars, delta, angle_epsilon, mergeVars, call>>

\* mutant: no line counts as visited when the loop of groupAdjacentLines
\* reaches it
Visited_Never(line_1) == FALSE

\* groupAdjacentLines, line 202: line_1 was put into a structure before
Visited(line_1) == Contains(visitedLines, line_1)

\* groupAdjacentLines, lines 200-208: one pass of the loop over lines
GroupStep ==
    /\ pc = "group"
    /\ gi <= Len(lines)
    /\ IF Visited(gi)
       THEN /\ gi' = gi + 1
            /\ UNCHANGED <<pc, structure, visitedLines, stack>>
       ELSE /\ structure' = <<gi>>
            /\ visitedLines' = Append(visitedLines, gi)
            /\ stack' = <<[currentLine |-> gi, at |-> 1]>>
            /\ pc' = "collect"
            /\ UNCHANGED gi
    /\ UNCHANGED <<shape, image, traceVars, delta, angle_epsilon, structures, mergeVars, call>>

\* groupAdjacentLines, line 212: the loop is over
GroupReturn ==
    /\ pc = "group"
    /\ gi > Len(lines)
    /\ pc' = "grouped"
    /\ UNCHANGED <<shape, image, traceVars, delta, angle_epsilon, structures, groupVars,
                   mergeVars, call>>

\* collectAdjacentLines, line 176: the line is skipped
Skip(line) == Contains(structure, line) \/ Contains(visitedLines, line)

\* collectAdjacentLines, lines 175-182: one pass of the loop over lines in the
\* innermost call
CollectStep ==
    /\ pc = "collect"
    /\ \E top \in {stack[Len(stack)]} :
       \E line \in {top.at} :
           /\ line <= Len(lines)
           /\ IF ~Skip(line) /\ isAdjacent(lines[top.currentLine], lines[line], delta)
              THEN /\ structure' = Append(structure, line)
                   /\ visitedLines' = Append(visitedLines, line)
                   /\ stack' = Append([stack EXCEPT ![Len(stack)].at = line + 1],
                                      [currentLine |-> line, at |-> 1])
              ELSE /\ stack' = [stack EXCEPT ![Len(stack)].at = line + 1]
                   /\ UNCHANGED <<structure, visitedLines>>
    /\ UNCHANGED <<shape, image, traceVars, pc, delta, angle_epsilon, structures, gi,
                   mergeVars, call>>

\* collectAdjacentLines returns; the outermost call returns to line 209 of
\* groupAdjacentLines, which appends the structure
CollectReturn ==
    /\ pc = "collect"
    /\ stack[Len(stack)].at > Len(lines)
    /\ stack' = SubSeq(stack, 1, Len(stack) - 1)
    /\ IF Len(stack) = 1
       THEN /\ structures' = Append(structures, structure)
            /\ gi' = gi + 1
            /\ pc' = "group"
       ELSE UNCHANGED <<structures, gi, pc>>
    /\ UNCHANGED <<shape, image, traceVars, delta, angle_epsilon, structure, visitedLines,
                   mergeVars, call>>

NextGroup == Call_groupAdjacentLines \/ GroupStep \/ GroupReturn \/ CollectStep \/ CollectReturn

\* the segments a caller may pass: both endpoints on a small grid of points
Points == (0 .. MaxX) \X (0 .. MaxY)
Segments == {LineSegment(a[1], a[2], b[1], b[2]) : a \in Points, b \in Points}
SegmentLists == UNION {[1 .. n -> Segments] : n \in 0 .. MaxLines}
Deltas == {0, 1}

\* a caller holds a list of LineSegment objects (distinct objects, equal
\* coordinates allowed) and a delta
InitGroup ==
    /\ shape = <<MaxY + 1, MaxX + 1>>
    /\ image = {}
    /\ delta \in Deltas
    /\ angle_epsilon = <<>>
    /\ pc = "traced"
    /\ structures = <<>>
    /\ \E input \in SegmentLists : Idle(input)

SpecGroup == InitGroup /\ [][NextGroup]_vars

\* how often an object occurs in the structures
Occurrences(line) ==
    Cardinality({<<s, k>> \in (1 .. Len(structures)) \X (1 .. MaxLines + 1) :
                    k <= Len(structures[s]) /\ structures[s][k] = line})

\* C1: when groupAdjacentLines has returned, every input segment is in exactly
\* one structure, exactly once, the structures hold nothing else, and no
\* structure is empty
C1_Partition ==
    pc = "grouped" =>
        /\ \A line \in 1 .. Len(lines) : Occurrences(line) = 1
        /\ \A s \in 1 .. Len(structures) :
               /\ Len(structures[s]) >= 1
               /\ \A k \in 1 .. Len(structures[s]) : structures[s][k] \in 1 .. Len(lines)

\* C1 witness: three segments were grouped into two structures, one of them
\* holding two segments
C1_Witness ==
    /\ pc = "grouped"
    /\ Len(lines) = 3
    /\ Len(structures) = 2
    /\ \E s \in 1 .. 2 : Len(structures[s]) = 2

\* the objects linked to the objects of S by a chain of pairwise adjacent
\* input segments
RECURSIVE Component(_)
Component(S) ==
    LET T == S \cup {l \in 1 .. Len(lines) :
                        \E m \in S : isAdjacent(lines[m], lines[l], delta)}
    IN  IF T = S THEN S ELSE Component(T)

\* two objects are in the same structure
SameStructure(a, b) ==
    \E s \in 1 .. Len(structures) : Contains(structures[s], a) /\ Contains(structures[s], b)

\* C11: isAdjacent is symmetric on the input segments, and when
\* groupAdjacentLines has returned two input segments are in the same
\* structure exactly when a chain of pairwise adjacent input segments links
\* them; no segment of one structure is adjacent to a segment of another
C11_Components ==
    /\ \A a, b \in 1 .. Len(lines) :
           isAdjacent(lines[a], lines[b], delta) <=> isAdjacent(lines[b], lines[a], delta)
    /\ pc = "grouped" =>
           \A a, b \in 1 .. Len(lines) :
               /\ SameStructure(a, b) <=> b \in Component({a})
               /\ ~SameStructure(a, b) => ~isAdjacent(lines[a], lines[b], delta)

\* C11 witness: three segments were grouped into one structure although the
\* first and the third are not adjacent; the second links them
C11_Witness ==
    /\ pc = "grouped"
    /\ Len(lines) = 3
    /\ ~isAdjacent(lines[1], lines[3], delta)
    /\ isAdjacent(lines[1], lines[2], delta)
    /\ isAdjacent(lines[2], lines[3], delta)
    /\ structures = <<<<1, 2, 3>>>>

(***************************************************************************)
(* postProcessing: slope and combineLines                                  *)
(***************************************************************************)
\* computeAngle, lines 240-246: the dot product ab of the (start - end) vectors
DotProduct(line_1, line_2) ==
    (line_1.x_start - line_1.x_end) * (line_2.x_start - line_2.x_end)
    + (line_1.y_start - line_1.y_end) * (line_2.y_start - line_2.y_end)

\* the square of a_ (b_) of computeAngle, lines 251-252
SquaredNorm(line) ==
    (line.x_start - line.x_end) * (line.x_start - line.x_end)
    + (line.y_start - line.y_end) * (line.y_start - line.y_end)

\* the angles angle_epsilon is drawn from, and the square of their cosine as
\* a fraction <<numerator, denominator>>
Epsilons == {0, 45, 90, 180}
CosineSquared(e) == IF e = 0 THEN <<1, 1>> ELSE IF e = 45 THEN <<1, 2>> ELSE <<0, 1>>

\* computeAngle(line_1, line_2) <= e, for e in Epsilons and segments between
\* points of a grid of at most 12 x 12.  computeAngle returns 90 when ab = 0
\* and degrees(acos(round(ab / (a_ * b_), 5))) otherwise, which is <= e exactly
\* when the quotient, rounded to 5 digits, is >= cos(e).  For these e and
\* such segments the quotient is never within 0.000005 of cos(e) unless it
\* equals it, so the floating-point test agrees with the exact one:
\* ab > 0 and ab^2 >= cos(e)^2 * a_^2 * b_^2.
AngleAtMost(line_1, line_2, e) ==
    LET ab == DotProduct(line_1, line_2)
        c  == CosineSquared(e)
    IN  IF ab = 0 THEN 90 <= e
        ELSE IF e >= 180 THEN TRUE
        ELSE ab > 0 /\ ab * ab * c[2] >= c[1] * SquaredNorm(line_1) * SquaredNorm(line_2)

\* haveEqualSlope, lines 273-277: "ValueError" when angle_epsilon is not set
haveEqualSlope(line_1, line_2, eps) ==
    IF eps # <<>>
    THEN IF -1 * eps[1] <= 0 /\ AngleAtMost(line_1, line_2, eps[1]) THEN "True" ELSE "False"
    ELSE "ValueError"

\* the result of combineLines: which operand is returned ("None" when no
\* combination is possible, "ValueError" when haveEqualSlope raises) and the
\* end coordinate the returned operand is given
Combined(object, x, y) == [object |-> object, x |-> x, y |-> y]

\* combineLines, lines 293-329
combineLines(line_1, line_2, eps, d) ==
    LET gate == IF ~isPoint(line_1) /\ ~isPoint(line_2)
                THEN haveEqualSlope(line_1, line_2, eps)
                ELSE "True"
    IN  IF gate = "ValueError" THEN Combined("ValueError", 0, 0)
        ELSE IF gate = "False" THEN Combined("None", 0, 0)
        ELSE IF isPoint(line_1)
             THEN IF isAdjacentToStart(line_2, line_1, d)
                  THEN Combined("line_1", line_2.x_end, line_2.y_end)
                  ELSE IF isAdjacentToEnd(line_2, line_1, d)
                  THEN Combined("line_2", line_1.x_end, line_1.y_end)
                  ELSE Combined("None", 0, 0)
        ELSE IF isPoint(line_2)
             THEN IF isAdjacentToStart(line_1, line_2, d)
                  THEN Combined("line_2", line_1.x_end, line_1.y_end)
                  ELSE IF isAdjacentToEnd(line_1, line_2, d)
                  THEN Combined("line_1", line_2.x_end, line_2.y_end)
                  ELSE Combined("None", 0, 0)
        ELSE IF isAdjacentToStart(line_1, line_2, d)
             THEN Combined("line_2", line_1.x_end, line_1.y_end)
        ELSE IF isAdjacentToEnd(line_1, line_2, d)
             THEN Combined("line_1", line_2.x_end, line_2.y_end)
        ELSE Combined("None", 0, 0)

(***************************************************************************)
(* postProcessing: combineLinesWithEqualSlope                              *)
(***************************************************************************)
\* list.remove(item): the list without the first occurrence of item
Structure_remove(list, item) ==
    LET k == CHOOSE n \in 1 .. Len(list) :
                 list[n] = item /\ \A m \in 1 .. n - 1 : list[m] # item
    IN  SubSeq(list, 1, k - 1) \o SubSeq(list, k + 1, Len(list))

\* combineLinesWithEqualSlope(structures, angle_epsilon, delta) is called,
\* lines 365-368; i and j are kept as positions counted from 1
Call_combineLinesWithEqualSlope ==
    /\ pc \in {"grouped", "merged"}
    /\ calls < MaxCalls
    /\ calls' = calls + 1
    /\ pc' = "merge"
    /\ ms' = 1
    /\ mi' = 1
    /\ mj' = 2
    /\ UNCHANGED <<shape, image, traceVars, delta, angle_epsilon, structures, groupVars, call>>

\* combineLinesWithEqualSlope_Rec, lines 341-351: combineLines on structure[i]
\* and structure[j], and what follows from its result
Combine ==
    /\ pc = "merge"
    /\ ms <= Len(structures)
    /\ mi <= Len(structures[ms])
    /\ mj <= Len(structures[ms])
    /\ \E line_1 \in {structures[ms][mi]} :
       \E line_2 \in {structures[ms][mj]} :
       \E combinedLine \in {combineLines(lines[line_1], lines[line_2], angle_epsilon, delta)} :
           IF combinedLine.object = "ValueError"
           THEN pc' = "error" /\ UNCHANGED <<lines, structures, ms, mi, mj>>
           ELSE IF combinedLine.object = "None"
           THEN mj' = mj + 1 /\ UNCHANGED <<lines, structures, ms, mi, pc>>
           ELSE \E returned \in {IF combinedLine.object = "line_1" THEN line_1 ELSE line_2} :
                   /\ lines' = [lines EXCEPT ![returned] =
                                    setEndCoordinate(@, combinedLine.x, combinedLine.y)]
                   /\ structures' = [structures EXCEPT ![ms] =
                                         Structure_remove([@ EXCEPT ![mi] = returned], line_2)]
                   /\ mj' = mi + 1
                   /\ UNCHANGED <<ms, mi, pc>>
    /\ UNCHANGED <<shape, image, visited_matrix, lineSegment, loc, i, j, attributed, delta,
                   angle_epsilon, groupVars, calls, call>>

\* combineLinesWithEqualSlope_Rec, line 353: no j combined with i, on to i + 1
RecNext ==
    /\ pc = "merge"
    /\ ms <= Len(structures)
    /\ mi <= Len(structures[ms])
    /\ mj > Len(structures[ms])
    /\ mi' = mi + 1
    /\ mj' = mi + 2
    /\ UNCHANGED <<shape, image, traceVars, pc, delta, angle_epsilon, structures, groupVars,
                   ms, calls, call>>

\* combineLinesWithEqualSlope_Rec, line 340: i is past the end, the recursion
\* unwinds and the loop of combineLinesWithEqualSlope goes on, lines 367-369
RecReturn ==
    /\ pc = "merge"
    /\ ms <= Len(structures)
    /\ mi > Len(structures[ms])
    /\ ms' = ms + 1
    /\ mi' = 1
    /\ mj' = 2
    /\ UNCHANGED <<shape, image, traceVars, pc, delta, angle_epsilon, structures, groupVars,
                   calls, call>>

\* combineLinesWithEqualSlope, line 371: all structures are processed
MergeReturn ==
    /\ pc = "merge"
    /\ ms > Len(structures)
    /\ pc' = "merged"
    /\ UNCHANGED <<shape, image, traceVars, delta, angle_epsilon, structures, groupVars,
                   mergeVars, call>>

NextMerge == Call_combineLinesWithEqualSlope \/ Combine \/ RecNext \/ RecReturn \/ MergeReturn

OptionalEpsilons == {<<>>} \cup {<<e>> : e \in Epsilons}

\* a caller holds one Structure of at most MaxLines LineSegment objects
InitMerge ==
    /\ shape = <<MaxY + 1, MaxX + 1>>
    /\ image = {}
    /\ delta \in Deltas
    /\ angle_epsilon \in OptionalEpsilons
    /\ pc = "grouped"
    /\ \E input \in SegmentLists : Idle(input)
    /\ structures = <<[k \in 1 .. Len(lines) |-> k]>>

SpecMerge == InitMerge /\ [][NextMerge]_vars

(***************************************************************************)
(* Properties of the merge                                                 *)
(***************************************************************************)
\* the segments of structure s as values, in order
Values(s) == [k \in 1 .. Len(structures[s]) |-> lines[structures[s][k]]]

AllValues == [s \in 1 .. Len(structures) |-> Values(s)]

\* the merge loop is about to call combineLines on structure[i], structure[j]
Comparing ==
    /\ pc = "merge"
    /\ ms <= Len(structures)
    /\ mi <= Len(structures[ms])
    /\ mj <= Len(structures[ms])

CurrentResult ==
    combineLines(lines[structures[ms][mi]], lines[structures[ms][mj]], angle_epsilon, delta)

\* the merged segment combineLines returns
CurrentMerged ==
    setEndCoordinate(
        IF CurrentResult.object = "line_1" THEN lines[structures[ms][mi]]
        ELSE lines[structures[ms][mj]],
        CurrentResult.x, CurrentResult.y)

\* C2 (as claimed): once combineLinesWithEqualSlope has finished on a
\* Structure, a second call with the same angle_epsilon and delta leaves the
\* segment list unchanged (same count, same order, same endpoints)
C2_Idempotent ==
    [][(calls = 2 /\ pc = "merge") => AllValues' = AllValues]_vars

\* C6 (as claimed): without angle_epsilon, every comparison of a pair of
\* segments, points included, fails with the ValueError and no Structure is
\* modified
C6_AbsentEpsilonFails ==
    [][(angle_epsilon = <<>> /\ Comparing) =>
          (pc' = "error" /\ AllValues' = AllValues)]_vars

\* C8 (as claimed): when combineLines(structure[i], structure[j]) succeeds,
\* the Structure afterwards holds the merged segment at index i, no longer
\* holds element j, keeps every other element in place (one element shorter),
\* and the scan resumes at the same i; i advances only when no j > i merges
C8_MergeStep ==
    [][/\ (Comparing /\ CurrentResult.object \in {"line_1", "line_2"}) =>
            /\ ms' = ms
            /\ mi' = mi
            /\ Values(ms)' = [k \in 1 .. Len(structures[ms]) - 1 |->
                                 IF k = mi THEN CurrentMerged
                                 ELSE IF k < mj THEN Values(ms)[k]
                                 ELSE Values(ms)[k + 1]]
       /\ (pc = "merge" /\ ms' = ms /\ mi' = mi + 1) =>
            \A k \in mi + 1 .. Len(structures[ms]) :
                combineLines(lines[structures[ms][mi]], lines[structures[ms][k]],
                             angle_epsilon, delta).object = "None"
      ]_vars

\* the operands of the call of combineLines the merge loop is about to make
Operand_a == lines[structures[ms][mi]]
Operand_b == lines[structures[ms][mj]]

\* both operands are lines (no points) and pass the slope gate
LinesPassGate ==
    /\ Comparing
    /\ ~isPoint(Operand_a)
    /\ ~isPoint(Operand_b)
    /\ haveEqualSlope(Operand_a, Operand_b, angle_epsilon) = "True"

\* segment seg runs between the points p and q, in either direction
HasEndpoints(seg, p, q) ==
    \/ <<seg.x_start, seg.y_start>> = p /\ <<seg.x_end, seg.y_end>> = q
    \/ <<seg.x_start, seg.y_start>> = q /\ <<seg.x_end, seg.y_end>> = p

\* the endpoints of b that are not the one adjacent to a's start
FarEndpoints_b ==
    (IF isAdjacentPoint(Operand_a.x_start, Operand_a.y_start,
                        Operand_b.x_end, Operand_b.y_end, delta)
     THEN {<<Operand_b.x_start, Operand_b.y_start>>} ELSE {})
    \cup
    (IF isAdjacentPoint(Operand_a.x_start, Operand_a.y_start,
                        Operand_b.x_start, Operand_b.y_start, delta)
     THEN {<<Operand_b.x_end, Operand_b.y_end>>} ELSE {})

\* the segment combineLines has returned, as it is after the call
MergedAfter ==
    lines'[IF CurrentResult.object = "line_1" THEN structures[ms][mi] ELSE structures[ms][mj]]

\* C12 (as claimed): combineLines on two lines a, b that pass the slope gate:
\* when a's start is adjacent to an endpoint of b the merged segment runs
\* between b's far endpoint and a's end; otherwise, when a's end is adjacent
\* to an endpoint of b, it runs between a's start and b's end; otherwise there
\* is no merge and neither a nor b is changed
C12_CombineLines ==
    [][LinesPassGate =>
          IF isAdjacentToStart(Operand_a, Operand_b, delta)
          THEN /\ CurrentResult.object \in {"line_1", "line_2"}
               /\ \E far \in FarEndpoints_b :
                      HasEndpoints(MergedAfter, far, <<Operand_a.x_end, Operand_a.y_end>>)
          ELSE IF isAdjacentToEnd(Operand_a, Operand_b, delta)
          THEN /\ CurrentResult.object \in {"line_1", "line_2"}
               /\ HasEndpoints(MergedAfter, <<Operand_a.x_start, Operand_a.y_start>>,
                               <<Operand_b.x_end, Operand_b.y_end>>)
          ELSE CurrentResult.object = "None" /\ lines' = lines /\ structures' = structures
      ]_vars

(***************************************************************************)
(* The three stages in a row: trace, group, merge                          *)
(***************************************************************************)
NextPipe == NextTrace \/ NextGroup \/ NextMerge

PipeShapes == {<<1, ScenarioCols>>, <<3, 3>>}
PipeDeltas == {1, 2}

\* _findLines is called on an image of one row of ScenarioCols pixels or of
\* 3 x 3 pixels; its result goes to groupAdjacentLines and the structures to
\* combineLinesWithEqualSlope, with the same delta
InitPipe ==
    /\ shape \in PipeShapes
    /\ image \in SUBSET Pixels(shape)
    /\ delta \in PipeDeltas
    /\ angle_epsilon \in OptionalEpsilons
    /\ pc = "scan"
    /\ structures = <<>>
    /\ Idle(<<>>)

SpecPipe == InitPipe /\ [][NextPipe]_vars

\* scenario C: one row, line-colored at x = 0..2 and x = 4..6
ScenarioC == {<<0, 0>>, <<1, 0>>, <<2, 0>>, <<4, 0>>, <<5, 0>>, <<6, 0>>}

InScenarioC == image = ScenarioC /\ Rows = 1

\* C3 (as claimed): in scenario C the scan yields (0,0)-(2,0) and (4,0)-(6,0),
\* grouping with delta = 1 yields exactly one Structure, and merging it
\* yields the single segment (0,0)-(6,0)
C3_ScenarioC ==
    (InScenarioC /\ delta = 1 /\ angle_epsilon # <<>>) =>
        /\ pc = "traced" => lines = <<LineSegment(0, 0, 2, 0), LineSegment(4, 0, 6, 0)>>
        /\ pc = "grouped" => Len(structures) = 1
        /\ pc = "merged" => AllValues = <<<<LineSegment(0, 0, 6, 0)>>>>

\* C3 (amended): in scenario C the scan yields (0,0)-(2,0) and (4,0)-(6,0);
\* with delta = 1 grouping yields two Structures of one segment each and the
\* merge leaves them as they are; with delta = 2 grouping yields exactly one
\* Structure, and merging it with an angle_epsilon of 0 or more degrees yields
\* the single segment (0,0)-(6,0)
C3_ScenarioC_Amended ==
    InScenarioC =>
        /\ pc \in {"traced", "group", "collect", "grouped"} =>
               lines = <<LineSegment(0, 0, 2, 0), LineSegment(4, 0, 6, 0)>>
        /\ (pc = "grouped" /\ delta = 1) => structures = <<<<1>>, <<2>>>>
        /\ (pc = "merged" /\ delta = 1) =>
               AllValues = <<<<LineSegment(0, 0, 2, 0)>>, <<LineSegment(4, 0, 6, 0)>>>>
        /\ (pc = "grouped" /\ delta = 2) => structures = <<<<1, 2>>>>
        /\ (pc = "merged" /\ delta = 2) => AllValues = <<<<LineSegment(0, 0, 6, 0)>>>>
        /\ (pc = "error") => (delta = 2 /\ angle_epsilon = <<>>)

\* C3 witness: scenario C has gone through the three stages with delta = 2
\* and one segment is left
C3_Witness ==
    /\ InScenarioC
    /\ delta = 2
    /\ pc = "merged"
    /\ Len(structures) = 1
    /\ Len(structures[1]) = 1

====
